---------------------------- MODULE Spec2Model ----------------------------
(***************************************************************************)
(* A model of the Mines automation script (livngcorpse/zoro):              *)
(*   state_manager.py    StateManager   (grid state, statistics, choices)  *)
(*   ai_game_handler.py  AIGameHandler  (message handler and turn loop)    *)
(*   bot_controller.py   BotController  (operator commands, the task)      *)
(*   rl_model.py         RLModel        (tabular learning update)          *)
(*                                                                         *)
(* The turn loop is an asyncio task: the code between two awaits runs      *)
(* atomically, so the loop is one action per await point (variable pc).    *)
(* Handlers of inbound messages and commands run between those steps.      *)
(*                                                                         *)
(* Numbers: floats are modelled exactly where they are compared.  Value    *)
(* estimates are rationals <<num, den>> in lowest terms; the exploration   *)
(* rate is a fixed-point integer in millionths (rounding of the binary     *)
(* floating point is not modelled).  Time is the difference                *)
(* time.time() - last_response_time, advanced in steps of TICK seconds and *)
(* saturated just above MAX_WAIT_TIME.                                     *)
(***************************************************************************)
EXTENDS Integers, Sequences, FiniteSets, TLC

\* ---------------------------------------- config.py
DEFAULT_BET == 20
DEFAULT_BOMBS == 3
MAX_WAIT_TIME == 30
TRAINING_CASHOUT == 3
\* RL parameters; the rates are in millionths, the decay in thousandths.
EXPLORATION_RATE == 200000
EXPLORATION_DECAY == 995
MIN_EXPLORATION_RATE == 10000
LEARNING_RATE == <<1, 10>>
DISCOUNT_FACTOR == <<19, 20>>
\* Telegram user ids, as decimal strings.
AUTHORIZED_USERS == {"7993404275"}

\* ---------------------------------------- bounds
\* config.GRID_SIZE is 5; the model runs the same code on a smaller board.
GRID_SIZE == 2
\* Seconds of wall-clock time per Tick step.
TICK == 16
\* Caps on what the environment (game bot, callers) does in one behaviour.
MaxDiamonds == 3
MaxGames == 1
MaxRounds == 1
MaxInflight == 1
MaxRLMoves == 1
MaxRateSteps == 700
MaxCalls == 3
MaxReported == 4
MaxUpdates == 2
MaxRestarts == 1
\* Largest revealed set whose iteration orders are enumerated.
MaxHashed == 3
\* Rounds that may become active while a click is in flight across the end
\* of a round.
MaxRoundsInRace == 2
\* Largest good-reveal count handed to calculate_reward.
MaxCount == 7
\* Command handlers of one kind suspended in their reply at the same time.
MaxReplying == 2

\* ---------------------------------------- values
\* Python's None for a position: the "no action" sentinel.
None == <<>>
\* current_message is None, or message.buttons is empty.
NoMessage == [rows |-> 0, cols |-> 0, cash |-> FALSE]

Range == 0 .. (GRID_SIZE - 1)
\* Every (row, col) with 0 <= row, col < GRID_SIZE.
Coords == Range \X Range

Max(a, b) == IF a >= b THEN a ELSE b


\* ---------------------------------------- rationals
RECURSIVE GCD(_, _)
GCD(a, b) == IF b = 0 THEN a ELSE GCD(b, a % b)
Abs(a) == IF a < 0 THEN -a ELSE a
\* n / d in lowest terms, d > 0.
Rat(n, d) ==
    LET g == GCD(Abs(n), Abs(d))
        s == IF d < 0 THEN -1 ELSE 1
    IN  <<(s * n) \div g, (s * d) \div g>>
LCM(a, b) == (a \div GCD(a, b)) * b
RAdd(x, y) ==
    LET l == LCM(x[2], y[2])
    IN  Rat(x[1] * (l \div x[2]) + y[1] * (l \div y[2]), l)
RNeg(x) == <<-x[1], x[2]>>
RSub(x, y) == RAdd(x, RNeg(y))
RMul(x, y) ==
    LET a == Rat(x[1], y[2])
        b == Rat(y[1], x[2])
    IN  <<a[1] * b[1], a[2] * b[2]>>
RLess(x, y) ==
    LET l == LCM(x[2], y[2])
    IN  x[1] * (l \div x[2]) < y[1] * (l \div y[2])
RZero == <<0, 1>>
RInt(n) == <<n, 1>>

VARIABLES
    \* StateManager: configuration and mode flags
    bet_amount, bombs, is_running, is_game_active, waiting_for_resume,
    training_mode, use_rl,
    \* StateManager: statistics
    games_played, wins, losses, total_diamonds_found, game_history,
    \* StateManager: current game
    current_grid, revealed_positions, revealed_diamonds,
    \* StateManager: learning data and the permission flag
    q_table, data_storage_permission,
    \* DataPersistence: its own flag and the two files
    dp_permission, disk_model, disk_history,
    \* AIGameHandler
    current_game_id, current_message, exploration_rate, elapsed,
    \* BotController.game_task: where the game_loop coroutine is suspended,
    \* the move function on its stack and the cell whose click is in flight
    pc, move_fn, click_pos,
    \* process_game_message handlers suspended in _start_new_game, and
    \* handle_start_ai and handle_resume handlers suspended in their reply
    h_inflight, c_inflight,
    \* history variables (not program state): the last step taken, the time
    \* since the last game-bot message, whether a round-start command is
    \* unanswered and for how long, the calls made so far, the value-guided
    \* moves made, the rounds that became active, the last table update and
    \* whether the loop has called _cash_out in the round being played
    ev, since_msg, start_pending, since_start, calls, rl_moves, rounds, upd,
    cash_out_requested

cfgVars == <<bet_amount, bombs>>
flagVars == <<is_running, waiting_for_resume, training_mode, use_rl>>
statVars == <<games_played, wins, losses, total_diamonds_found, game_history>>
gridVars == <<current_grid, revealed_positions, revealed_diamonds>>
diskVars ==
    <<data_storage_permission, dp_permission, disk_model, disk_history>>
taskVars == <<pc, move_fn, click_pos>>
handlerVars == <<h_inflight, c_inflight>>
timeVars == <<elapsed, since_msg, start_pending, since_start>>
histVars == <<calls, rl_moves, rounds, upd, cash_out_requested>>
vars == <<cfgVars, flagVars, is_game_active, statVars, gridVars, q_table,
          diskVars, current_game_id, current_message, exploration_rate,
          taskVars, handlerVars, timeVars, ev, histVars>>

\* ---------------------------------------- StateManager
EmptyHistory == [k \in {} |-> 0]
EmptyTable == [k \in {} |-> 0]

\* _initialize_empty_grid
InitializeEmptyGrid == [p \in Coords |-> "unknown"]

\* get_valid_moves: the coordinates not in revealed_positions, as a set (the
\* row-major order of the list only matters to random.choice).
GetValidMovesOffByOne ==
    {p \in (0 .. GRID_SIZE) \X (0 .. GRID_SIZE) : p \notin revealed_positions}
GetValidMovesIgnoringRevealed == Range \X Range
GetValidMoves ==
    {p \in Range \X Range : p \notin revealed_positions}

\* reset_game_state, as the new values of the current-game fields.
ResetGameStateKeepingCells ==
    /\ is_game_active' = FALSE
    /\ current_grid' = InitializeEmptyGrid
    /\ revealed_positions' = revealed_positions
    /\ revealed_diamonds' = 0
ResetGameState ==
    /\ is_game_active' = FALSE
    /\ current_grid' = InitializeEmptyGrid
    /\ revealed_positions' = {}
    /\ revealed_diamonds' = 0

\* _update_game_history for the new counters.
UpdateGameHistory(gp, w, l, total) ==
    [games_played |-> gp, wins |-> w, losses |-> l,
     win_rate |-> IF gp > 0 THEN Rat(w, gp) ELSE RZero,
     average_diamonds |-> IF gp > 0 THEN Rat(total, gp) ELSE RZero]

\* DataPersistence.save_game_history's serializable_history.
SerializableHistory(h) ==
    IF DOMAIN h = {}
    THEN [games_played |-> 0, wins |-> 0, losses |-> 0,
          win_rate |-> RZero, average_diamonds |-> RZero]
    ELSE h

\* DataPersistence.save_model_data(q_table): what it returns and what the
\* model file holds afterwards (a failing write is not modelled).
SaveModelDataUngated(table) == [ok |-> TRUE, file |-> table]
SaveModelData(table) ==
    IF ~dp_permission THEN [ok |-> FALSE, file |-> disk_model]
    ELSE [ok |-> TRUE, file |-> table]

\* DataPersistence.save_game_history(game_history), likewise.
SaveGameHistory(history) ==
    IF ~dp_permission THEN [ok |-> FALSE, file |-> disk_history]
    ELSE [ok |-> TRUE, file |-> SerializableHistory(history)]

\* DataPersistence.load_model_data() and load_game_history(); a file that
\* does not exist reads as the empty mapping.
LoadModelData == IF ~dp_permission THEN EmptyTable ELSE disk_model
LoadGameHistory == IF ~dp_permission THEN EmptyHistory ELSE disk_history

\* _save_current_data with save_model_data and save_game_history, for the
\* table and history to be written.
SaveCurrentData(table, history) ==
    IF data_storage_permission
    THEN /\ disk_model' = SaveModelData(table).file
         /\ disk_history' = SaveGameHistory(history).file
    ELSE UNCHANGED <<disk_model, disk_history>>

\* record_game_outcome(won, diamonds_revealed): counters, history, and the
\* save of every fifth game.
RecordGameOutcomeWinsOnly(won, diamonds_revealed) ==
    /\ games_played' = games_played + 1
    /\ total_diamonds_found' = total_diamonds_found + diamonds_revealed
    /\ wins' = IF won THEN wins + 1 ELSE wins
    /\ losses' = losses
    /\ game_history' = UpdateGameHistory(games_played', wins', losses',
                                         total_diamonds_found')
    /\ UNCHANGED <<disk_model, disk_history>>
RecordGameOutcomeLossOnly(won, diamonds_revealed) ==
    /\ games_played' = games_played + 1
    /\ total_diamonds_found' = total_diamonds_found + diamonds_revealed
    /\ wins' = wins
    /\ losses' = losses + 1
    /\ game_history' = UpdateGameHistory(games_played', wins', losses',
                                         total_diamonds_found')
    /\ UNCHANGED <<disk_model, disk_history>>
RecordGameOutcome(won, diamonds_revealed) ==
    /\ games_played' = games_played + 1
    /\ total_diamonds_found' = total_diamonds_found + diamonds_revealed
    /\ wins' = IF won THEN wins + 1 ELSE wins
    /\ losses' = IF won THEN losses ELSE losses + 1
    /\ game_history' = UpdateGameHistory(games_played', wins', losses',
                                         total_diamonds_found')
    /\ IF games_played' % 5 = 0 /\ data_storage_permission
       THEN SaveCurrentData(q_table, game_history')
       ELSE UNCHANGED <<disk_model, disk_history>>

\* choose_action_training: the cells random.choice may return, or None.
ChooseActionTrainingAny ==
    IF GetValidMoves = {} THEN Coords ELSE GetValidMoves
ChooseActionTraining ==
    IF GetValidMoves = {} THEN {None} ELSE GetValidMoves

\* f"{action[0]},{action[1]}"
ActionStr(p) == ToString(p[1]) \o "," \o ToString(p[2])

\* Whether position p precedes q in Python's tuple order.
PosLess(p, q) == p[1] < q[1] \/ (p[1] = q[1] /\ p[2] < q[2])

\* ','.join(f"{pos[0]},{pos[1]}" for pos in sorted(S))
RECURSIVE RevealedStr(_)
RevealedStr(S) ==
    IF S = {} THEN ""
    ELSE LET first == CHOOSE p \in S : \A q \in S \ {p} : PosLess(p, q)
             rest == S \ {first}
         IN  IF rest = {} THEN ActionStr(first)
             ELSE ActionStr(first) \o "," \o RevealedStr(rest)

\* get_state_hash for given fields.
StateHash(revealed, nbombs, diamonds) ==
    RevealedStr(revealed) \o "_" \o ToString(nbombs) \o "_"
        \o ToString(diamonds)
GetStateHash == StateHash(revealed_positions, bombs, revealed_diamonds)

\* The valid moves that have an entry under `state` in table q.
Known(q, state, valid) ==
    IF state \in DOMAIN q
    THEN {a \in valid : ActionStr(a) \in DOMAIN q[state]}
    ELSE {}

\* choose_action_rl: the cells it may return (None when no move is left).
ChooseActionRlAtRandom == IF GetValidMoves = {} THEN {None} ELSE GetValidMoves
ChooseActionRl ==
    LET state == GetStateHash
        valid == GetValidMoves
        known == Known(q_table, state, valid)
        best == {a \in known :
                    \A b \in known :
                        ~RLess(q_table[state][ActionStr(a)],
                               q_table[state][ActionStr(b)])}
    IN  IF valid = {} THEN {None}
        ELSE IF state \notin DOMAIN q_table \/ DOMAIN q_table[state] = {}
        THEN valid
        ELSE IF best /= {}
                /\ \E a \in best : RLess(RZero, q_table[state][ActionStr(a)])
        THEN best
        ELSE valid

\* ---------------------------------------- history
Ev(op, dec, out, pos, dia, nvalid) ==
    [op |-> op, dec |-> dec, out |-> out, pos |-> pos, dia |-> dia,
     nvalid |-> nvalid]
\* A step that takes no decision and sends nothing.
Quiet(op) == Ev(op, "none", "none", None, 0, 0)
Sent(op, out) == Ev(op, "none", out, None, 0, 0)
\* process_game_message has handled message m: what it took it for (the test
\* of line 68 comes before that of line 82), the request it sent and the
\* good-reveal count it ended with.
Received(m, out, diamonds) ==
    [op |-> "message",
     dec |-> IF m.loss THEN "loss" ELSE IF m.won THEN "won" ELSE "update",
     out |-> out, pos |-> None, dia |-> diamonds, nvalid |-> 0, msg |-> m]

\* The record_game_outcome calls made so far in this process: how many, how
\* many with won true and false, and the sum of the good reveals they
\* reported; the counters the constructor loaded, and the processes started
\* after the first.
NothingLoaded == [games_played |-> 0, wins |-> 0, losses |-> 0]
NoCalls ==
    [n |-> 0, won |-> 0, lost |-> 0, sum |-> 0, loaded |-> NothingLoaded,
     starts |-> 0]
Called(won, diamonds_revealed) ==
    [calls EXCEPT !.n = @ + 1,
                  !.won = IF won THEN @ + 1 ELSE @,
                  !.lost = IF won THEN @ ELSE @ + 1,
                  !.sum = @ + diamonds_revealed]

\* The last update_q_values call: its arguments, the table before it and the
\* bestNext it used.
NoUpdate ==
    [n |-> 0, old |-> "", action |-> None, reward |-> RZero, new |-> "",
     before |-> EmptyTable, best |-> RZero]

\* ---------------------------------------- time
\* Time that has passed TICK seconds later, kept just above MAX_WAIT_TIME.
Later(t) == IF t + TICK > MAX_WAIT_TIME THEN MAX_WAIT_TIME + 1 ELSE t + TICK

\* TICK seconds pass (every task is suspended at an await or idle).  The
\* history clocks run only when `watch` is set.
Tick(watch) ==
    /\ elapsed' = Later(elapsed)
    /\ since_msg' = IF watch THEN Later(since_msg) ELSE since_msg
    /\ since_start' = IF watch /\ start_pending THEN Later(since_start)
                      ELSE since_start
    /\ ev' = Quiet("step")
    /\ UNCHANGED <<cfgVars, flagVars, is_game_active, statVars, gridVars,
                   q_table, diskVars, current_game_id, current_message,
                   exploration_rate, taskVars, handlerVars, start_pending,
                   histVars>>

\* A round-start command goes out: the wait for the round (re)starts unless
\* one is already unanswered.
StartSent ==
    /\ start_pending' = TRUE
    /\ since_start' = IF start_pending THEN since_start ELSE 0

\* ---------------------------------------- Init
\* No command handler is suspended.
NoReplies == [start |-> 0, resume |-> 0]

Init ==
    /\ bet_amount = DEFAULT_BET
    /\ bombs = DEFAULT_BOMBS
    /\ is_running = FALSE
    /\ is_game_active = FALSE
    /\ waiting_for_resume = FALSE
    /\ training_mode = TRUE
    /\ use_rl = FALSE
    /\ games_played = 0
    /\ wins = 0
    /\ losses = 0
    /\ total_diamonds_found = 0
    /\ game_history = EmptyHistory
    /\ current_grid = InitializeEmptyGrid
    /\ revealed_positions = {}
    /\ revealed_diamonds = 0
    /\ q_table = EmptyTable
    /\ data_storage_permission = FALSE
    /\ dp_permission = FALSE
    /\ disk_model = EmptyTable
    /\ disk_history = EmptyHistory
    /\ current_game_id = "None"
    /\ current_message = NoMessage
    /\ exploration_rate = EXPLORATION_RATE
    /\ elapsed = 0
    /\ pc = "none"
    /\ move_fn = "none"
    /\ click_pos = None
    /\ h_inflight = 0
    /\ c_inflight = NoReplies
    /\ ev = Quiet("init")
    /\ since_msg = 0
    /\ start_pending = FALSE
    /\ since_start = 0
    /\ calls = NoCalls
    /\ rl_moves = 0
    /\ rounds = 0
    /\ upd = NoUpdate
    /\ cash_out_requested = FALSE

\* ---------------------------------------- game bot
\* message.buttons of a grid message: `rows` rows of `cols` cell buttons, and
\* whether some button's text matches a cash-out label.  The game bot shows
\* the whole board.
ButtonLayouts ==
    {[rows |-> GRID_SIZE, cols |-> GRID_SIZE, cash |-> c] : c \in BOOLEAN}

\* What process_game_message reads of a message: its buttons, and whether its
\* text reports a found diamond (lines 61-63), a loss (line 68), a win (82).
GameMessages ==
    {[buttons |-> b, diamond |-> d, loss |-> l, won |-> w] :
        b \in ButtonLayouts \cup {NoMessage}, d \in BOOLEAN,
        l \in BOOLEAN, w \in BOOLEAN}

\* ---------------------------------------- AIGameHandler
\* Lines 77 and 94: a finished round is followed by a new one.
AutoRestartIgnoringPause(terminal) == terminal /\ is_running
AutoRestart(terminal) == terminal /\ is_running /\ ~waiting_for_resume

\* process_game_message(event), up to its await in _start_new_game, while
\* fewer than maxRounds rounds have become active.
ProcessGameMessageWithin(m, maxRounds) ==
    LET hasButtons == m.buttons.rows > 0
        newGame == hasButtons /\ current_game_id = "None"
        d0 == IF newGame THEN 0 ELSE revealed_diamonds
        d1 == IF hasButtons /\ m.diamond THEN d0 + 1 ELSE d0
        terminal == m.loss \/ m.won
        restart == AutoRestart(terminal)
    IN  /\ d1 <= MaxDiamonds
        /\ terminal => games_played < MaxGames
        /\ newGame => rounds < maxRounds
        /\ rounds' = IF newGame THEN rounds + 1 ELSE rounds
        /\ restart => h_inflight < MaxInflight
        /\ elapsed' = 0
        /\ since_msg' = 0
        /\ current_message' = IF hasButtons THEN m.buttons ELSE current_message
        /\ IF terminal
           THEN /\ RecordGameOutcome(~m.loss, d1)
                /\ current_game_id' = "None"
                /\ ResetGameState
           ELSE /\ is_game_active' = (hasButtons \/ is_game_active)
                /\ current_game_id' =
                       IF hasButtons THEN "uuid" ELSE current_game_id
                /\ revealed_diamonds' = d1
                /\ UNCHANGED <<statVars, current_grid, revealed_positions,
                               disk_model, disk_history>>
        /\ IF restart
           THEN /\ h_inflight' = h_inflight + 1
                /\ start_pending' = TRUE
                /\ since_start' = IF start_pending /\ ~hasButtons
                                  THEN since_start ELSE 0
                /\ ev' = Received(m, "start", d1)
           ELSE /\ h_inflight' = h_inflight
                /\ start_pending' = (start_pending /\ ~hasButtons)
                /\ since_start' = IF start_pending /\ ~hasButtons
                                  THEN since_start ELSE 0
                /\ ev' = Received(m, "none", d1)
        /\ calls' = IF terminal THEN Called(~m.loss, d1) ELSE calls
        /\ UNCHANGED c_inflight
        /\ cash_out_requested' =
               (cash_out_requested /\ ~terminal /\ ~newGame)
        /\ UNCHANGED <<cfgVars, flagVars, q_table, data_storage_permission,
                       dp_permission, exploration_rate, taskVars, rl_moves,
                       upd>>

ProcessGameMessage(m) == ProcessGameMessageWithin(m, MaxRounds)

\* The handler's send_message in _start_new_game returns (ok) or raises:
\* line 151 stamps last_response_time only when it returned.
HandlerStartDone(ok) ==
    /\ h_inflight > 0
    /\ h_inflight' = h_inflight - 1
    /\ UNCHANGED c_inflight
    /\ elapsed' = IF ok THEN 0 ELSE elapsed
    /\ ev' = Quiet("step")
    /\ UNCHANGED <<cfgVars, flagVars, is_game_active, statVars, gridVars,
                   q_table, diskVars, current_game_id, current_message,
                   exploration_rate, taskVars, since_msg, start_pending,
                   since_start, histVars>>

\* What one call of a move function does up to its first await: where the
\* loop is suspended next, whether last_response_time is stamped, which
\* function took the decision (_cash_out or _click_position), the request
\* sent and the cell clicked.
Decision(next, stamp, dec, out, pos) ==
    [pc |-> next, stamp |-> stamp, dec |-> dec, out |-> out, pos |-> pos]

\* _cash_out up to its first await: no buttons, a cash-out button to click,
\* or none found and the operator is notified.
CashOut ==
    IF current_message.rows = 0
    THEN Decision("loop", FALSE, "cash_out", "none", None)
    ELSE IF current_message.cash
    THEN Decision("cashout_click", TRUE, "cash_out", "cashout", None)
    ELSE Decision("cashout_notify", FALSE, "cash_out", "notify", None)

\* _click_position(row, col) up to its await of the click: the early returns,
\* the substitution of an already revealed cell, the click request.
ClickPosition(p) ==
    IF current_message.rows = 0
    THEN {Decision("loop", FALSE, "click", "none", None)}
    ELSE IF current_message.rows <= p[1] \/ current_message.cols <= p[2]
    THEN {Decision("loop", FALSE, "click", "none", None)}
    ELSE IF p \in revealed_positions
    THEN IF GetValidMoves /= {}
         THEN {Decision("cell_click", TRUE, "click", "click", q) :
                  q \in GetValidMoves}
         ELSE {CashOut}
    ELSE {Decision("cell_click", TRUE, "click", "click", p)}

\* _play_training_move up to its first await.
PlayTrainingMoveNoThreshold ==
    UNION {IF p = None THEN {CashOut} ELSE ClickPosition(p) :
              p \in ChooseActionTraining}
PlayTrainingMove ==
    IF revealed_diamonds >= TRAINING_CASHOUT
    THEN {CashOut}
    ELSE UNION {IF p = None THEN {CashOut} ELSE ClickPosition(p) :
                   p \in ChooseActionTraining}

\* _play_rl_move up to its first await: random.random() < exploration_rate
\* explores, otherwise the table decides.
PlayRlMove ==
    LET explore == IF exploration_rate > 0 THEN ChooseActionTraining ELSE {}
        exploit == IF exploration_rate < 1000000 THEN ChooseActionRl ELSE {}
    IN  UNION {IF p = None THEN {CashOut} ELSE ClickPosition(p) :
                  p \in explore \cup exploit}

DecayNoFloor(rate) == (rate * EXPLORATION_DECAY) \div 1000

\* max(MIN_EXPLORATION_RATE, exploration_rate * EXPLORATION_DECAY)
Decay(rate) ==
    Max(MIN_EXPLORATION_RATE, (rate * EXPLORATION_DECAY) \div 1000)

\* Lines 216-217 run when _click_position returned to _play_rl_move.
DecayIf(cond) ==
    /\ exploration_rate' = IF cond THEN Decay(exploration_rate)
                           ELSE exploration_rate
    /\ rl_moves' = IF cond THEN rl_moves + 1 ELSE rl_moves

\* The loop takes decision d of move function fn and is suspended at d.pc.
Decide(op, fn, d) ==
    /\ pc' = d.pc
    /\ move_fn' = IF d.pc = "loop" THEN "none" ELSE fn
    /\ click_pos' = IF d.pc = "cell_click" THEN d.pos ELSE None
    /\ elapsed' = IF d.stamp THEN 0 ELSE elapsed
    /\ DecayIf(fn = "rl" /\ d.dec = "click" /\ d.pc = "loop")
    /\ ev' = Ev(op, d.dec, d.out, d.pos, revealed_diamonds,
                Cardinality(GetValidMoves))
    /\ cash_out_requested' = (cash_out_requested \/ d.dec = "cash_out")
    /\ UNCHANGED <<cfgVars, flagVars, is_game_active, statVars, gridVars,
                   q_table, diskVars, current_game_id, current_message,
                   handlerVars, since_msg, start_pending, since_start, calls,
                   rounds, upd>>

\* game_loop, one action per branch of an iteration, from the while test to
\* the next await.  pc = "loop": suspended in a sleep before the while test.
LoopExit ==
    /\ pc = "loop"
    /\ ~is_running
    /\ pc' = "done"
    /\ ev' = Quiet("step")
    /\ UNCHANGED <<cfgVars, flagVars, is_game_active, statVars, gridVars,
                   q_table, diskVars, current_game_id, current_message,
                   exploration_rate, move_fn, click_pos, handlerVars,
                   timeVars, histVars>>

\* Lines 109-111, and an iteration that finds no grid to play on.
LoopSleep ==
    /\ pc = "loop"
    /\ is_running
    /\ IF waiting_for_resume THEN TRUE
       ELSE is_game_active /\ elapsed <= MAX_WAIT_TIME
            /\ current_message.rows = 0
    /\ ev' = Quiet("step")
    /\ UNCHANGED <<cfgVars, flagVars, is_game_active, statVars, gridVars,
                   q_table, diskVars, current_game_id, current_message,
                   exploration_rate, taskVars, handlerVars, timeVars,
                   histVars>>

\* Lines 114-117: no game is active, the round-start command is sent.
LoopStartGame ==
    /\ pc = "loop"
    /\ is_running
    /\ ~waiting_for_resume
    /\ ~is_game_active
    /\ pc' = "start_send"
    /\ StartSent
    /\ ev' = Sent("loop_start", "start")
    /\ UNCHANGED <<cfgVars, flagVars, is_game_active, statVars, gridVars,
                   q_table, diskVars, current_game_id, current_message,
                   exploration_rate, move_fn, click_pos, handlerVars, elapsed,
                   since_msg, histVars>>

\* Lines 120-124: the game bot is slow, the operator is notified.
LoopSlow ==
    /\ pc = "loop"
    /\ is_running
    /\ ~waiting_for_resume
    /\ is_game_active
    /\ elapsed > MAX_WAIT_TIME
    /\ pc' = "slow_notify"
    /\ ev' = Sent("loop_slow", "notify")
    /\ UNCHANGED <<cfgVars, flagVars, is_game_active, statVars, gridVars,
                   q_table, diskVars, current_game_id, current_message,
                   exploration_rate, move_fn, click_pos, handlerVars,
                   timeVars, histVars>>

CanPlayIgnoringPause ==
    /\ pc = "loop"
    /\ is_running
    /\ is_game_active
    /\ elapsed <= MAX_WAIT_TIME
    /\ current_message.rows > 0

\* The guard of lines 127-136.
CanPlay ==
    /\ pc = "loop"
    /\ is_running
    /\ ~waiting_for_resume
    /\ is_game_active
    /\ elapsed <= MAX_WAIT_TIME
    /\ current_message.rows > 0

LoopTrainingMove ==
    /\ CanPlay
    /\ training_mode
    /\ \E d \in PlayTrainingMove : Decide("training_move", "training", d)

LoopRlMove(cap) ==
    /\ CanPlay
    /\ ~training_mode
    /\ rl_moves < cap
    /\ \E d \in PlayRlMove : Decide("rl_move", "rl", d)

\* The awaits of the loop return (ok) or raise (~ok).

\* Where the loop is after an exception has been caught and logged (lines
\* 141-143 of game_loop, 152, 186 and 221 of the functions it calls): at the
\* sleep before its next iteration.
Uncaught == "done"
Caught == "loop"

\* The step an await of the loop ends with.
Returned(ok) == IF ok THEN Quiet("step") ELSE Quiet("failed")

\* _start_new_game, lines 150-153, then the sleep of line 116.
StartSendDone(ok) ==
    /\ pc = "start_send"
    /\ pc' = IF ok THEN "loop" ELSE Caught
    /\ elapsed' = IF ok THEN 0 ELSE elapsed
    /\ ev' = Returned(ok)
    /\ UNCHANGED <<cfgVars, flagVars, is_game_active, statVars, gridVars,
                   q_table, diskVars, current_game_id, current_message,
                   exploration_rate, move_fn, click_pos, handlerVars,
                   since_msg, start_pending, since_start, histVars>>

\* Lines 122-124; a raising send_message ends in the handler of line 141.
SlowNotifyDone(ok) ==
    /\ pc = "slow_notify"
    /\ pc' = IF ok THEN "loop" ELSE Caught
    /\ waiting_for_resume' = (ok \/ waiting_for_resume)
    /\ ev' = Returned(ok)
    /\ UNCHANGED <<cfgVars, is_running, training_mode, use_rl,
                   is_game_active, statVars, gridVars, q_table, diskVars,
                   current_game_id, current_message, exploration_rate,
                   move_fn, click_pos, handlerVars, timeVars, histVars>>

\* The cell recorded by line 260 once the click of line 257 has returned.
RecordClickReplacing(revealed, p) == {p}
RecordClick(revealed, p) == revealed \cup {p}

\* _click_position, lines 257-263 (the click returned) or 265-268 (it raised),
\* and for _play_rl_move the decay of lines 216-217.
CellClickDone(ok) ==
    /\ pc = "cell_click"
    /\ IF ok
       THEN /\ revealed_positions' = RecordClick(revealed_positions, click_pos)
            /\ pc' = "loop"
            /\ move_fn' = "none"
            /\ DecayIf(move_fn = "rl")
            /\ ev' = Ev("cell_click_done", "none", "none", click_pos, 0, 0)
       ELSE /\ revealed_positions' = revealed_positions
            /\ pc' = "click_notify"
            /\ move_fn' = move_fn
            /\ DecayIf(FALSE)
            /\ ev' = Sent("cell_click_failed", "notify")
    /\ click_pos' = None
    /\ UNCHANGED <<cfgVars, flagVars, is_game_active, statVars, current_grid,
                   revealed_diamonds, q_table, diskVars, current_game_id,
                   current_message, handlerVars, timeVars, calls, rounds, upd,
                   cash_out_requested>>

\* Lines 268-269: the operator was notified and the loop pauses; a raising
\* send_message leaves _click_position and is logged by the move function.
ClickNotifyDone(ok) ==
    /\ pc = "click_notify"
    /\ pc' = IF ok THEN "loop" ELSE Caught
    /\ move_fn' = "none"
    /\ waiting_for_resume' = (ok \/ waiting_for_resume)
    /\ DecayIf(ok /\ move_fn = "rl")
    /\ ev' = Returned(ok)
    /\ UNCHANGED <<cfgVars, is_running, training_mode, use_rl,
                   is_game_active, statVars, gridVars, q_table, diskVars,
                   current_game_id, current_message, click_pos, handlerVars,
                   timeVars, calls, rounds, upd, cash_out_requested>>

\* _cash_out, line 292: the click returned, or raised into line 305.
CashoutClickDone(ok) ==
    /\ pc = "cashout_click"
    /\ pc' = IF ok THEN "loop" ELSE "cashout_notify"
    /\ move_fn' = IF ok THEN "none" ELSE move_fn
    /\ ev' = IF ok THEN Quiet("step")
             ELSE Sent("cashout_click_failed", "notify")
    /\ UNCHANGED <<cfgVars, flagVars, is_game_active, statVars, gridVars,
                   q_table, diskVars, current_game_id, current_message,
                   exploration_rate, click_pos, handlerVars, timeVars,
                   histVars>>

\* _cash_out, lines 302-303 and 307-308.
CashoutNotifyDone(ok) ==
    /\ pc = "cashout_notify"
    /\ pc' = IF ok THEN "loop" ELSE Caught
    /\ move_fn' = "none"
    /\ waiting_for_resume' = (ok \/ waiting_for_resume)
    /\ ev' = Returned(ok)
    /\ UNCHANGED <<cfgVars, is_running, training_mode, use_rl,
                   is_game_active, statVars, gridVars, q_table, diskVars,
                   current_game_id, current_message, exploration_rate,
                   click_pos, handlerVars, timeVars, histVars>>

\* ---------------------------------------- BotController
\* game_task is None or done.
NoLiveTaskUnchecked == TRUE
NoLiveTask == pc \in {"none", "done"}

\* handle_start_ai; ok: the reply of line 70 was sent.
HandleStartAi(ok) ==
    /\ is_running' = TRUE
    /\ pc' = IF ~is_running /\ ok /\ NoLiveTask THEN "loop" ELSE pc
    /\ ev' = Quiet("step")
    /\ UNCHANGED <<cfgVars, waiting_for_resume, training_mode, use_rl,
                   is_game_active, statVars, gridVars, q_table, diskVars,
                   current_game_id, current_message, exploration_rate,
                   move_fn, click_pos, handlerVars, timeVars, histVars>>

\* handle_stop_ai: the flag is cleared and a live task is cancelled at the
\* await where it is suspended.
HandleStopAi ==
    /\ is_running' = FALSE
    /\ pc' = IF is_running /\ ~NoLiveTask THEN "done" ELSE pc
    /\ move_fn' = IF is_running /\ ~NoLiveTask THEN "none" ELSE move_fn
    /\ click_pos' = IF is_running /\ ~NoLiveTask THEN None ELSE click_pos
    /\ ev' = Quiet("step")
    /\ UNCHANGED <<cfgVars, waiting_for_resume, training_mode, use_rl,
                   is_game_active, statVars, gridVars, q_table, diskVars,
                   current_game_id, current_message, exploration_rate,
                   handlerVars, timeVars, histVars>>

\* handle_train_rl
HandleTrainRl ==
    /\ use_rl' = FALSE
    /\ training_mode' = TRUE
    /\ ev' = Quiet("step")
    /\ UNCHANGED <<cfgVars, is_running, waiting_for_resume, is_game_active,
                   statVars, gridVars, q_table, diskVars, current_game_id,
                   current_message, exploration_rate, taskVars, handlerVars,
                   timeVars, histVars>>

\* handle_use_rl
HandleUseRl ==
    /\ use_rl' = TRUE
    /\ training_mode' = FALSE
    /\ ev' = Quiet("step")
    /\ UNCHANGED <<cfgVars, is_running, waiting_for_resume, is_game_active,
                   statVars, gridVars, q_table, diskVars, current_game_id,
                   current_message, exploration_rate, taskVars, handlerVars,
                   timeVars, histVars>>

\* handle_resume; ok: the reply of line 150 was sent.
HandleResume(ok) ==
    /\ waiting_for_resume' = FALSE
    /\ pc' = IF waiting_for_resume /\ ok /\ NoLiveTask THEN "loop" ELSE pc
    /\ ev' = Quiet("step")
    /\ UNCHANGED <<cfgVars, is_running, training_mode, use_rl,
                   is_game_active, statVars, gridVars, q_table, diskVars,
                   current_game_id, current_message, exploration_rate,
                   move_fn, click_pos, handlerVars, timeVars, histVars>>

\* ---------------------------------------- the program
Next ==
    \/ Tick(FALSE)
    \/ \E m \in GameMessages : ProcessGameMessage(m)
    \/ \E ok \in BOOLEAN : HandlerStartDone(ok)
    \/ LoopExit
    \/ LoopSleep
    \/ LoopStartGame
    \/ LoopSlow
    \/ LoopTrainingMove
    \/ LoopRlMove(MaxRLMoves)
    \/ \E ok \in BOOLEAN : StartSendDone(ok)
    \/ \E ok \in BOOLEAN : SlowNotifyDone(ok)
    \/ \E ok \in BOOLEAN : CellClickDone(ok)
    \/ \E ok \in BOOLEAN : ClickNotifyDone(ok)
    \/ \E ok \in BOOLEAN : CashoutClickDone(ok)
    \/ \E ok \in BOOLEAN : CashoutNotifyDone(ok)
    \/ \E ok \in BOOLEAN : HandleStartAi(ok)
    \/ HandleStopAi
    \/ HandleTrainRl
    \/ HandleUseRl
    \/ \E ok \in BOOLEAN : HandleResume(ok)

Spec == Init /\ [][Next]_vars

\* ---------------------------------------- StateManager API
\* The public methods of StateManager and RLModel called directly, from the
\* state after construction.  (The controller above never calls update_grid
\* or update_q_values.)

\* What a caller may pass as the result of a click.
Results == {"diamond", "bomb"}

\* update_grid(row, col, result), lines 166-178.
UpdateGrid(row, col, result) ==
    /\ result = "diamond" => revealed_diamonds < MaxDiamonds
    /\ IF ~(0 <= row /\ row < GRID_SIZE /\ 0 <= col /\ col < GRID_SIZE)
       THEN UNCHANGED gridVars
       ELSE /\ current_grid' = [current_grid EXCEPT ![<<row, col>>] = result]
            /\ revealed_positions' = revealed_positions \cup {<<row, col>>}
            /\ revealed_diamonds' = IF result = "diamond"
                                    THEN revealed_diamonds + 1
                                    ELSE revealed_diamonds
    /\ ev' = Ev("update_grid", "none", result, <<row, col>>, 0, 0)
    /\ UNCHANGED <<cfgVars, flagVars, is_game_active, statVars, q_table,
                   diskVars, current_game_id, current_message,
                   exploration_rate, taskVars, handlerVars, timeVars,
                   histVars>>

\* reset_game_state()
CallResetGameState ==
    /\ ResetGameState
    /\ ev' = Quiet("reset_game_state")
    /\ UNCHANGED <<cfgVars, flagVars, statVars, q_table, diskVars,
                   current_game_id, current_message, exploration_rate,
                   taskVars, handlerVars, timeVars, histVars>>

NextGrid ==
    \/ \E row \in -1 .. GRID_SIZE, col \in -1 .. GRID_SIZE, r \in Results :
           UpdateGrid(row, col, r)
    \/ CallResetGameState

SpecGrid == Init /\ [][NextGrid]_vars

\* record_game_outcome(won, diamonds_revealed) called directly.
CallRecordGameOutcome(won, diamonds_revealed) ==
    /\ calls.n < MaxCalls
    /\ RecordGameOutcome(won, diamonds_revealed)
    /\ calls' = Called(won, diamonds_revealed)
    /\ ev' = Quiet("record_game_outcome")
    /\ UNCHANGED <<cfgVars, flagVars, is_game_active, gridVars, q_table,
                   data_storage_permission, dp_permission, current_game_id,
                   current_message, exploration_rate, taskVars, handlerVars,
                   timeVars, rl_moves, rounds, upd, cash_out_requested>>

\* set_permission_status(permission_granted), with save_permission_status
\* (lines 28-35) and the save that follows a grant.
SetPermissionStatus(permission_granted) ==
    /\ data_storage_permission' = permission_granted
    /\ dp_permission' = permission_granted
    /\ IF permission_granted
       THEN /\ disk_model' = q_table
            /\ disk_history' = SerializableHistory(game_history)
       ELSE UNCHANGED <<disk_model, disk_history>>
    /\ ev' = Quiet("set_permission_status")
    /\ UNCHANGED <<cfgVars, flagVars, is_game_active, statVars, gridVars,
                   q_table, current_game_id, current_message,
                   exploration_rate, taskVars, handlerVars, timeVars,
                   histVars>>

\* _load_saved_data as the constructor calls it: the counters a saved
\* history restores (total_diamonds_found is not among them).
LoadSavedData ==
    IF dp_permission /\ DOMAIN disk_history /= {}
    THEN [games_played |-> disk_history.games_played,
          wins |-> disk_history.wins, losses |-> disk_history.losses]
    ELSE NothingLoaded

\* The process ends and a new one constructs StateManager and AIGameHandler:
\* the files on disk stay, everything in memory starts over, and with the
\* permission on file the saved table and counters are loaded.
NewProcess ==
    /\ calls.starts < MaxRestarts
    /\ UNCHANGED <<cfgVars, dp_permission, disk_model, disk_history>>
    /\ is_running' = FALSE
    /\ is_game_active' = FALSE
    /\ waiting_for_resume' = FALSE
    /\ training_mode' = TRUE
    /\ use_rl' = FALSE
    /\ games_played' = LoadSavedData.games_played
    /\ wins' = LoadSavedData.wins
    /\ losses' = LoadSavedData.losses
    /\ total_diamonds_found' = 0
    /\ game_history' = EmptyHistory
    /\ current_grid' = InitializeEmptyGrid
    /\ revealed_positions' = {}
    /\ revealed_diamonds' = 0
    /\ data_storage_permission' = dp_permission
    /\ q_table' = IF dp_permission THEN disk_model ELSE EmptyTable
    /\ current_game_id' = "None"
    /\ current_message' = NoMessage
    /\ exploration_rate' = EXPLORATION_RATE
    /\ elapsed' = 0
    /\ pc' = "none"
    /\ move_fn' = "none"
    /\ click_pos' = None
    /\ h_inflight' = 0
    /\ c_inflight' = NoReplies
    /\ since_msg' = 0
    /\ start_pending' = FALSE
    /\ since_start' = 0
    /\ calls' = [NoCalls EXCEPT !.loaded = LoadSavedData,
                                !.starts = calls.starts + 1]
    /\ rl_moves' = 0
    /\ rounds' = 0
    /\ upd' = NoUpdate
    /\ cash_out_requested' = FALSE
    /\ ev' = Quiet("new_process")

NextStats ==
    \/ \E won \in BOOLEAN, d \in 0 .. MaxReported :
           CallRecordGameOutcome(won, d)
    \/ \E granted \in BOOLEAN : SetPermissionStatus(granted)
    \/ NewProcess

SpecStats == Init /\ [][NextStats]_vars

\* ---------------------------------------- RLModel API
\* calculate_reward: the rewards it can return for one reveal.
Rewards == {RInt(-10), RInt(1), Rat(-1, 10)}

\* State keys as get_state_hash builds them: the fresh board, and the board
\* after one good reveal at (0, 0).
QStates ==
    {StateHash({}, DEFAULT_BOMBS, 0), StateHash({<<0, 0>>}, DEFAULT_BOMBS, 1)}

QActions == {<<0, 0>>, <<0, 1>>}

\* Line 57: q_table[old_state].get(action_str, 0.0).
CurrentQ(table, old_state, action_str) ==
    IF old_state \in DOMAIN table /\ action_str \in DOMAIN table[old_state]
    THEN table[old_state][action_str]
    ELSE RZero

\* Lines 60-66: the best known value among the moves still valid, from 0.0.
MaxNextQ(table, new_state, valid) ==
    LET known == {table[new_state][ActionStr(a)] :
                     a \in Known(table, new_state, valid)} \cup {RZero}
    IN  CHOOSE m \in known : \A x \in known : ~RLess(m, x)

NewQNoRate(current_q, reward, max_next_q) ==
    RAdd(current_q,
         RSub(RAdd(reward, RMul(DISCOUNT_FACTOR, max_next_q)), current_q))

\* Line 69: the Q-learning update rule.
NewQ(current_q, reward, max_next_q) ==
    RAdd(current_q,
         RMul(LEARNING_RATE,
              RSub(RAdd(reward, RMul(DISCOUNT_FACTOR, max_next_q)),
                   current_q)))

\* update_q_values(old_state, action, reward, new_state)
UpdateQValues(old_state, action, reward, new_state) ==
    LET action_str == ActionStr(action)
        table == IF old_state \in DOMAIN q_table
                 THEN q_table
                 ELSE (old_state :> EmptyTable) @@ q_table
        current_q == CurrentQ(table, old_state, action_str)
        max_next_q == MaxNextQ(table, new_state, GetValidMoves)
        new_q == NewQ(current_q, reward, max_next_q)
    IN  /\ upd.n < MaxUpdates
        /\ q_table' = [table EXCEPT
                           ![old_state] = (action_str :> new_q) @@ @]
        /\ upd' = [n |-> upd.n + 1, old |-> old_state, action |-> action,
                   reward |-> reward, new |-> new_state, before |-> q_table,
                   best |-> max_next_q]
        /\ ev' = Quiet("update_q_values")
        /\ UNCHANGED <<cfgVars, flagVars, is_game_active, statVars, gridVars,
                       diskVars, current_game_id, current_message,
                       exploration_rate, taskVars, handlerVars, timeVars,
                       calls, rl_moves, rounds, cash_out_requested>>

NextQ ==
    \/ \E old_state \in QStates, action \in QActions, reward \in Rewards,
          new_state \in QStates :
           UpdateQValues(old_state, action, reward, new_state)
    \/ \E result \in Results : UpdateGrid(0, 0, result)

SpecQ == Init /\ [][NextQ]_vars

\* ---------------------------------------- RL play
\* A grid message that reports neither a diamond nor the end of the round.
GridMessages ==
    {m \in GameMessages :
        m.buttons.rows > 0 /\ ~m.diamond /\ ~m.loss /\ ~m.won}

\* The operator starts the AI and selects the RL model, the game bot shows
\* the board, and the loop plays value-guided moves; clicks may fail and the
\* operator resumes.
NextRL ==
    \/ HandleStartAi(TRUE)
    \/ HandleUseRl
    \/ \E m \in GridMessages : ProcessGameMessage(m)
    \/ LoopSleep
    \/ LoopStartGame
    \/ StartSendDone(TRUE)
    \/ LoopRlMove(MaxRateSteps)
    \/ \E ok \in BOOLEAN : CellClickDone(ok)
    \/ ClickNotifyDone(TRUE)
    \/ CashoutClickDone(TRUE)
    \/ CashoutNotifyDone(TRUE)
    \/ HandleResume(TRUE)

SpecRL == Init /\ [][NextRL]_vars

\* ---------------------------------------- a silent game bot
\* Training play with the clocks of the last inbound message and of the
\* unanswered round start running: the game bot may stay silent for any time.
NextWatch ==
    \/ Tick(TRUE)
    \/ HandleStartAi(TRUE)
    \/ \E m \in GridMessages : ProcessGameMessage(m)
    \/ LoopSleep
    \/ LoopStartGame
    \/ \E ok \in BOOLEAN : StartSendDone(ok)
    \/ LoopSlow
    \/ SlowNotifyDone(TRUE)
    \/ LoopTrainingMove
    \/ CellClickDone(TRUE)
    \/ CashoutClickDone(TRUE)
    \/ CashoutNotifyDone(TRUE)
    \/ HandleResume(TRUE)

SpecWatch == Init /\ [][NextWatch]_vars

\* ---------------------------------------- configuration commands
\* The command text after message.split(' '): the words that follow the
\* command word, each a sequence of characters.  An empty word comes from
\* two spaces in a row.
ArgWords ==
    {<<>>, <<"0">>, <<"2">>, <<"3">>, <<"5">>, <<"2", "3">>, <<"2", "4">>,
     <<"-", "1">>, <<"+", "7">>, <<"a">>, <<"3", ".", "5">>}
ArgLists ==
    {<<>>} \cup {<<w>> : w \in ArgWords} \cup {<<<<"5">>, <<"a">>>>}

Digit ==
    [c \in {"0", "1", "2", "3", "4", "5", "6", "7", "8", "9"} |->
        CASE c = "0" -> 0 [] c = "1" -> 1 [] c = "2" -> 2 [] c = "3" -> 3
          [] c = "4" -> 4 [] c = "5" -> 5 [] c = "6" -> 6 [] c = "7" -> 7
          [] c = "8" -> 8 [] c = "9" -> 9]

\* The value of a sequence of decimal digits.
RECURSIVE DigitsValue(_)
DigitsValue(w) ==
    IF w = <<>> THEN 0
    ELSE DigitsValue(SubSeq(w, 1, Len(w) - 1)) * 10 + Digit[w[Len(w)]]

\* int(word): an optional sign and at least one digit, or ValueError.
ParseInt(word) ==
    LET signed == word /= <<>> /\ word[1] \in {"+", "-"}
        digits == IF signed THEN Tail(word) ELSE word
        ok == /\ digits /= <<>>
              /\ \A i \in 1 .. Len(digits) : digits[i] \in DOMAIN Digit
    IN  [ok |-> ok,
         val |-> IF ~ok THEN 0
                 ELSE IF signed /\ word[1] = "-" THEN -DigitsValue(digits)
                 ELSE DigitsValue(digits)]

\* int(message.split(' ')[1]): IndexError without a second word.
ParseArg(args) ==
    IF args = <<>> THEN [ok |-> FALSE, val |-> 0] ELSE ParseInt(args[1])

\* The range test of handle_set_bombs, line 120.
BombsInRangeWide(n) == ~(n < 2 \/ n > 24)
BombsInRange(n) == ~(n <= 2 \/ n >= 24)

\* handle_set_bet
HandleSetBet(args) ==
    LET bet == ParseArg(args)
        accepted == bet.ok /\ ~(bet.val <= 0)
    IN  /\ bet_amount' = IF accepted THEN bet.val ELSE bet_amount
        /\ bombs' = bombs
        /\ ev' = Ev("set_bet", IF accepted THEN "set" ELSE "rejected",
                    "none", args, 0, 0)
        /\ UNCHANGED <<flagVars, is_game_active, statVars, gridVars, q_table,
                       diskVars, current_game_id, current_message,
                       exploration_rate, taskVars, handlerVars, timeVars,
                       histVars>>

\* handle_set_bombs
HandleSetBombs(args) ==
    LET n == ParseArg(args)
        accepted == n.ok /\ BombsInRange(n.val)
    IN  /\ bombs' = IF accepted THEN n.val ELSE bombs
        /\ bet_amount' = bet_amount
        /\ ev' = Ev("set_bombs", IF accepted THEN "set" ELSE "rejected",
                    "none", args, 0, 0)
        /\ UNCHANGED <<flagVars, is_game_active, statVars, gridVars, q_table,
                       diskVars, current_game_id, current_message,
                       exploration_rate, taskVars, handlerVars, timeVars,
                       histVars>>

\* The operator's commands, in any order.
NextConfig ==
    \/ \E args \in ArgLists : HandleSetBet(args)
    \/ \E args \in ArgLists : HandleSetBombs(args)
    \/ \E ok \in BOOLEAN : HandleStartAi(ok)
    \/ HandleStopAi
    \/ HandleTrainRl
    \/ HandleUseRl
    \/ \E ok \in BOOLEAN : HandleResume(ok)

SpecConfig == Init /\ [][NextConfig]_vars

\* ---------------------------------------- state key
\* The orders in which iterating the set S may yield its elements.
Orders(S) ==
    {o \in [1 .. Cardinality(S) -> S] :
        \A i, j \in 1 .. Cardinality(S) : o[i] = o[j] => i = j}

\* Position p placed before the first element of the sorted sequence s
\* that it precedes.
RECURSIVE Insert(_, _)
Insert(p, s) ==
    IF s = <<>> THEN <<p>>
    ELSE IF PosLess(p, Head(s)) THEN <<p>> \o s
    ELSE <<Head(s)>> \o Insert(p, Tail(s))

\* The sequence handed on without sorting.
Unsorted(order) == order

\* sorted(self.revealed_positions), from the order iteration yields.
RECURSIVE Sorted(_)
Sorted(order) ==
    IF order = <<>> THEN <<>>
    ELSE Insert(Head(order), Sorted(Tail(order)))

\* ','.join([f"{pos[0]},{pos[1]}" for pos in cells])
RECURSIVE Join(_)
Join(cells) ==
    IF cells = <<>> THEN ""
    ELSE IF Len(cells) = 1 THEN ActionStr(cells[1])
    ELSE ActionStr(cells[1]) \o "," \o Join(Tail(cells))

\* The key get_state_hash returns when iteration yields `order`.
StateHashOf(order, nbombs, diamonds) ==
    Join(Sorted(order)) \o "_" \o ToString(nbombs) \o "_"
        \o ToString(diamonds)

\* Everything but the record of the last step.
stateVars == <<cfgVars, flagVars, is_game_active, statVars, gridVars,
               q_table, diskVars, current_game_id, current_message,
               exploration_rate, taskVars, handlerVars, timeVars, histVars>>

\* get_state_hash() called directly; the key is recorded in ev.out and the
\* iteration order in ev.pos.
CallGetStateHash ==
    /\ Cardinality(revealed_positions) <= MaxHashed
    /\ \E order \in Orders(revealed_positions) :
           ev' = Ev("get_state_hash", "none",
                    StateHashOf(order, bombs, revealed_diamonds), order, 0, 0)
    /\ UNCHANGED stateVars

NextHash ==
    \/ \E row \in -1 .. GRID_SIZE, col \in -1 .. GRID_SIZE, r \in Results :
           UpdateGrid(row, col, r)
    \/ CallResetGameState
    \/ \E args \in ArgLists : HandleSetBombs(args)
    \/ CallGetStateHash

SpecHash == Init /\ [][NextHash]_vars

\* ---------------------------------------- DataPersistence API
\* Value tables and histories a caller may hand to the save functions.
Tables ==
    {EmptyTable,
     [st \in {StateHash({}, DEFAULT_BOMBS, 0)} |->
         [a \in {ActionStr(<<0, 0>>)} |-> RInt(1)]]}
Histories ==
    {EmptyHistory, UpdateGameHistory(1, 1, 0, 2),
     UpdateGameHistory(2, 1, 1, 2)}

\* The four functions called directly; the argument or the mapping returned
\* is recorded in ev.pos and the boolean returned in ev.dec.
CallSaveModelData(table) ==
    /\ disk_model' = SaveModelData(table).file
    /\ ev' = Ev("save_model_data",
                IF SaveModelData(table).ok THEN "True" ELSE "False",
                "none", table, 0, 0)
    /\ UNCHANGED <<cfgVars, flagVars, is_game_active, statVars, gridVars,
                   q_table, data_storage_permission, dp_permission,
                   disk_history, current_game_id, current_message,
                   exploration_rate, taskVars, handlerVars, timeVars,
                   histVars>>

CallSaveGameHistory(history) ==
    /\ disk_history' = SaveGameHistory(history).file
    /\ ev' = Ev("save_game_history",
                IF SaveGameHistory(history).ok THEN "True" ELSE "False",
                "none", history, 0, 0)
    /\ UNCHANGED <<cfgVars, flagVars, is_game_active, statVars, gridVars,
                   q_table, data_storage_permission, dp_permission,
                   disk_model, current_game_id, current_message,
                   exploration_rate, taskVars, handlerVars, timeVars,
                   histVars>>

CallLoadModelData ==
    /\ ev' = Ev("load_model_data", "none", "none", LoadModelData, 0, 0)
    /\ UNCHANGED stateVars

CallLoadGameHistory ==
    /\ ev' = Ev("load_game_history", "none", "none", LoadGameHistory, 0, 0)
    /\ UNCHANGED stateVars

NextDisk ==
    \/ \E granted \in BOOLEAN : SetPermissionStatus(granted)
    \/ \E table \in Tables : CallSaveModelData(table)
    \/ \E history \in Histories : CallSaveGameHistory(history)
    \/ CallLoadModelData
    \/ CallLoadGameHistory
    \/ \E won \in BOOLEAN : CallRecordGameOutcome(won, 1)
    \/ NewProcess

SpecDisk == Init /\ [][NextDisk]_vars

\* ---------------------------------------- a click across the round's end
\* A board, with or without a reported diamond, or the text of a lost round
\* without a board.
RoundMessages ==
    {m \in GameMessages :
        ~m.won /\ (m.loss <=> m.buttons.rows = 0) /\ (m.diamond => ~m.loss)}

\* Training play over two rounds: the game bot's messages are handled while
\* the loop is suspended in a click or a send.
NextRace ==
    \/ HandleStartAi(TRUE)
    \/ \E m \in RoundMessages : ProcessGameMessageWithin(m, MaxRoundsInRace)
    \/ HandlerStartDone(TRUE)
    \/ LoopSleep
    \/ LoopStartGame
    \/ StartSendDone(TRUE)
    \/ LoopTrainingMove
    \/ CellClickDone(TRUE)
    \/ CashoutClickDone(TRUE)
    \/ CashoutNotifyDone(TRUE)

SpecRace == Init /\ [][NextRace]_vars

\* ---------------------------------------- choosing from the table
\* choose_action_rl() called directly, between updates of the table and of
\* the board; the cell returned is recorded in ev.pos.
CallChooseActionRl ==
    /\ \E p \in ChooseActionRl :
           ev' = Ev("choose_action_rl", "none", "none", p, 0, 0)
    /\ UNCHANGED stateVars

NextChoose ==
    \/ \E old_state \in QStates, action \in QActions, reward \in Rewards,
          new_state \in QStates :
           UpdateQValues(old_state, action, reward, new_state)
    \/ \E result \in Results : UpdateGrid(0, 0, result)
    \/ CallChooseActionRl

SpecChoose == Init /\ [][NextChoose]_vars

\* ---------------------------------------- rewards
\* calculate_reward(old_diamonds, new_diamonds, hit_bomb)
CalculateRewardOnePerStep(old_diamonds, new_diamonds, hit_bomb) ==
    IF hit_bomb THEN RInt(-10)
    ELSE IF new_diamonds - old_diamonds > 0 THEN RInt(1)
    ELSE Rat(-1, 10)
CalculateReward(old_diamonds, new_diamonds, hit_bomb) ==
    IF hit_bomb THEN RInt(-10)
    ELSE IF new_diamonds - old_diamonds > 0
    THEN RMul(RInt(1), RInt(new_diamonds - old_diamonds))
    ELSE Rat(-1, 10)

\* calculate_reward called directly: the counts in ev.pos, hit_bomb in
\* ev.dec and the reward returned in ev.out.
CallCalculateReward(old_diamonds, new_diamonds, hit_bomb) ==
    /\ ev' = Ev("calculate_reward", IF hit_bomb THEN "bomb" ELSE "clear",
                CalculateReward(old_diamonds, new_diamonds, hit_bomb),
                <<old_diamonds, new_diamonds>>, 0, 0)
    /\ UNCHANGED stateVars

NextReward ==
    \E old_diamonds \in 0 .. MaxCount, new_diamonds \in 0 .. MaxCount,
       hit_bomb \in BOOLEAN :
        CallCalculateReward(old_diamonds, new_diamonds, hit_bomb)

SpecReward == Init /\ [][NextReward]_vars

\* ---------------------------------------- learning from a finished game
\* Identifiers of finished games, and what record_bomb_positions and
\* record_diamond_positions may have left in bomb_history and
\* diamond_history: a game is absent, or maps to the cells recorded for it.
\* No cell is recorded both as a bomb and as a diamond.  The order of a
\* recorded list does not matter to learn_from_game, so a list is modelled
\* as the set of its cells.
GameIds == {"g1", "g2"}
NoHistory == [g \in {} |-> {}]
BombHistories == {NoHistory, "g1" :> {}, "g1" :> {<<0, 0>>}}
DiamondHistories ==
    {NoHistory, "g1" :> {<<0, 1>>}, "g1" :> {<<0, 1>>, <<1, 1>>}}

\* history.get(game_id, [])
Recorded(history, game_id) ==
    IF game_id \in DOMAIN history THEN history[game_id] ELSE {}

\* f"unknown_{self.state_manager.bombs}_{0}"
InitialStateKey(nbombs) ==
    "unknown_" \o ToString(nbombs) \o "_" \o ToString(0)

\* One loop of learn_from_game: every position gets `value` under state_key,
\* which is created when missing and a position is there to store.
AssignAllReplacing(table, state_key, positions, value) ==
    IF positions = {} THEN table
    ELSE (state_key :> [a \in {ActionStr(p) : p \in positions} |-> value])
             @@ table
AssignAll(table, state_key, positions, value) ==
    IF positions = {} THEN table
    ELSE LET base == IF state_key \in DOMAIN table THEN table
                     ELSE (state_key :> EmptyTable) @@ table
         IN  [base EXCEPT ![state_key] =
                 [a \in {ActionStr(p) : p \in positions} |-> value] @@ @]

\* learn_from_game(game_id, won): the table it leaves.
LearnFromGame(table, nbombs, bomb_history, diamond_history, game_id) ==
    IF game_id \notin DOMAIN bomb_history
       /\ game_id \notin DOMAIN diamond_history
    THEN table
    ELSE AssignAll(AssignAll(table, InitialStateKey(nbombs),
                             Recorded(bomb_history, game_id), RInt(-5)),
                   InitialStateKey(nbombs),
                   Recorded(diamond_history, game_id), RInt(2))

\* learn_from_game called directly; ev.pos records the game's recorded cells
\* and whether the game is in either history.
CallLearnFromGame(bomb_history, diamond_history, game_id) ==
    /\ q_table' = LearnFromGame(q_table, bombs, bomb_history,
                                diamond_history, game_id)
    /\ ev' = Ev("learn_from_game", "none", "none",
                [bombs |-> Recorded(bomb_history, game_id),
                 diamonds |-> Recorded(diamond_history, game_id),
                 known |-> game_id \in DOMAIN bomb_history
                           \/ game_id \in DOMAIN diamond_history], 0, 0)
    /\ UNCHANGED <<cfgVars, flagVars, is_game_active, statVars, gridVars,
                   diskVars, current_game_id, current_message,
                   exploration_rate, taskVars, handlerVars, timeVars,
                   histVars>>

NextLearn ==
    \/ \E reward \in Rewards :
           UpdateQValues(StateHash({}, DEFAULT_BOMBS, 0), <<0, 0>>, reward,
                         StateHash({<<0, 0>>}, DEFAULT_BOMBS, 1))
    \/ \E args \in {<<<<"5">>>>, <<<<"2", "4">>>>} : HandleSetBombs(args)
    \/ \E bomb_history \in BombHistories,
          diamond_history \in DiamondHistories, game_id \in GameIds :
           CallLearnFromGame(bomb_history, diamond_history, game_id)

SpecLearn == Init /\ [][NextLearn]_vars

\* ---------------------------------------- resetting the round
\* reset_game_state() called directly at any point: after the operator set
\* the configuration and the mode, a board made the round active, cells
\* were reported, an outcome was recorded and the table was updated.
NextReset ==
    \/ CallResetGameState
    \/ \E args \in {<<<<"5">>>>, <<<<"0">>>>} : HandleSetBet(args)
    \/ \E args \in {<<<<"5">>>>, <<<<"2", "4">>>>} : HandleSetBombs(args)
    \/ HandleUseRl
    \/ HandleTrainRl
    \/ \E m \in GridMessages : ProcessGameMessage(m)
    \/ \E result \in Results : UpdateGrid(0, 0, result)
    \/ \E won \in BOOLEAN : CallRecordGameOutcome(won, 1)
    \/ UpdateQValues(StateHash({}, DEFAULT_BOMBS, 0), <<0, 0>>, RInt(1),
                     StateHash({<<0, 0>>}, DEFAULT_BOMBS, 1))

SpecReset == Init /\ [][NextReset]_vars

\* ---------------------------------------- a round without an outcome
\* A board, with or without a reported diamond, and no end of the round.
BoardMessages ==
    {m \in GameMessages : m.buttons.rows > 0 /\ ~m.loss /\ ~m.won}

\* Automation keeps running in either mode while the game bot never reports
\* the end of the round; clicks may fail and the operator resumes.  The
\* value-guided moves are followed up to one per cell of the grid.
NextRound ==
    \/ HandleStartAi(TRUE)
    \/ HandleUseRl
    \/ HandleTrainRl
    \/ \E m \in BoardMessages : ProcessGameMessage(m)
    \/ LoopSleep
    \/ LoopStartGame
    \/ StartSendDone(TRUE)
    \/ LoopTrainingMove
    \/ LoopRlMove(GRID_SIZE * GRID_SIZE)
    \/ \E ok \in BOOLEAN : CellClickDone(ok)
    \/ ClickNotifyDone(TRUE)
    \/ \E ok \in BOOLEAN : CashoutClickDone(ok)
    \/ CashoutNotifyDone(TRUE)
    \/ HandleResume(TRUE)

SpecRound == Init /\ [][NextRound]_vars

\* ---------------------------------------- interleaved commands
\* handle_start_ai, lines 65-69: up to the await of the reply.
StartAiBegin ==
    /\ c_inflight.start < MaxReplying
    /\ is_running' = TRUE
    /\ c_inflight' = IF is_running THEN c_inflight
                     ELSE [c_inflight EXCEPT !.start = @ + 1]
    /\ ev' = Quiet("step")
    /\ UNCHANGED <<cfgVars, waiting_for_resume, training_mode, use_rl,
                   is_game_active, statVars, gridVars, q_table, diskVars,
                   current_game_id, current_message, exploration_rate,
                   taskVars, h_inflight, timeVars, histVars>>

\* A game_loop task is created where game_task is None or done, after a
\* reply that was sent (ok).
TaskCreated(ok) ==
    /\ pc' = IF ok /\ NoLiveTask THEN "loop" ELSE pc
    /\ ev' = Quiet(IF ok /\ NoLiveTask THEN "create_task" ELSE "step")

\* handle_start_ai, lines 70-74: the reply returned or raised.
StartAiReplied(ok) ==
    /\ c_inflight.start > 0
    /\ c_inflight' = [c_inflight EXCEPT !.start = @ - 1]
    /\ TaskCreated(ok)
    /\ UNCHANGED <<cfgVars, flagVars, is_game_active, statVars, gridVars,
                   q_table, diskVars, current_game_id, current_message,
                   exploration_rate, move_fn, click_pos, h_inflight,
                   timeVars, histVars>>

\* handle_resume, lines 145-149: up to the await of the reply.
ResumeBegin ==
    /\ c_inflight.resume < MaxReplying
    /\ waiting_for_resume' = FALSE
    /\ c_inflight' = IF waiting_for_resume
                     THEN [c_inflight EXCEPT !.resume = @ + 1]
                     ELSE c_inflight
    /\ ev' = Quiet("step")
    /\ UNCHANGED <<cfgVars, is_running, training_mode, use_rl,
                   is_game_active, statVars, gridVars, q_table, diskVars,
                   current_game_id, current_message, exploration_rate,
                   taskVars, h_inflight, timeVars, histVars>>

\* handle_resume, lines 150-153: the reply returned or raised.
ResumeReplied(ok) ==
    /\ c_inflight.resume > 0
    /\ c_inflight' = [c_inflight EXCEPT !.resume = @ - 1]
    /\ TaskCreated(ok)
    /\ UNCHANGED <<cfgVars, flagVars, is_game_active, statVars, gridVars,
                   q_table, diskVars, current_game_id, current_message,
                   exploration_rate, move_fn, click_pos, h_inflight,
                   timeVars, histVars>>

\* The commands that touch game_task, interleaved at their awaits with each
\* other and with a loop that plays, fails and pauses.
NextTasks ==
    \/ StartAiBegin
    \/ \E ok \in BOOLEAN : StartAiReplied(ok)
    \/ HandleStopAi
    \/ ResumeBegin
    \/ \E ok \in BOOLEAN : ResumeReplied(ok)
    \/ \E m \in BoardMessages : ProcessGameMessage(m)
    \/ LoopExit
    \/ LoopSleep
    \/ LoopStartGame
    \/ StartSendDone(TRUE)
    \/ LoopTrainingMove
    \/ CellClickDone(FALSE)
    \/ ClickNotifyDone(TRUE)
    \/ \E ok \in BOOLEAN : CashoutClickDone(ok)
    \/ CashoutNotifyDone(TRUE)

SpecTasks == Init /\ [][NextTasks]_vars

\* ---------------------------------------- command dispatch
\* The senders of group messages: the authorized operator and a stranger.
Senders == AUTHORIZED_USERS \cup {"7993404276"}

\* The command word a message text starts with (lines 39-54), "other" if
\* none, and the words after it.
CommandWords ==
    {"/startai", "/stopai", "/trainrl", "/userl", "/setbet", "/setbombs",
     "/status", "/resume", "other"}
CommandTexts == [command : CommandWords, args : {<<>>, <<<<"5">>>>}]

\* Line 34: event.sender_id in AUTHORIZED_USERS.
AuthorizedAnyone(sender_id) == TRUE
Authorized(sender_id) == sender_id \in AUTHORIZED_USERS

\* handle_status: a reply, no assignment.
HandleStatus ==
    /\ ev' = Quiet("step")
    /\ UNCHANGED stateVars

\* command_handler(event): the sender test, then the first matching prefix.
CommandHandler(sender_id, text) ==
    IF ~Authorized(sender_id)
    THEN /\ ev' = Ev("command_ignored", "none", "none", text, 0, 0)
         /\ UNCHANGED stateVars
    ELSE CASE text.command = "/startai" ->
                  \E ok \in BOOLEAN : HandleStartAi(ok)
           [] text.command = "/stopai" -> HandleStopAi
           [] text.command = "/trainrl" -> HandleTrainRl
           [] text.command = "/userl" -> HandleUseRl
           [] text.command = "/setbet" -> HandleSetBet(text.args)
           [] text.command = "/setbombs" -> HandleSetBombs(text.args)
           [] text.command = "/status" -> HandleStatus
           [] text.command = "/resume" ->
                  \E ok \in BOOLEAN : HandleResume(ok)
           [] OTHER -> HandleStatus

\* The send_message calls command_handler makes for a message: every branch
\* of every handle_* function replies once, nothing else does.
CommandReplies(sender_id, text) ==
    IF Authorized(sender_id) /\ text.command /= "other" THEN 1 ELSE 0

\* Group messages from anyone, while the loop plays in training mode and
\* its clicks fail.
NextCommands ==
    \/ \E sender_id \in Senders, text \in CommandTexts :
           CommandHandler(sender_id, text)
    \/ \E m \in BoardMessages : ProcessGameMessage(m)
    \/ LoopExit
    \/ LoopSleep
    \/ LoopStartGame
    \/ StartSendDone(TRUE)
    \/ LoopTrainingMove
    \/ CellClickDone(FALSE)
    \/ ClickNotifyDone(TRUE)
    \/ CashoutClickDone(TRUE)
    \/ CashoutNotifyDone(TRUE)

SpecCommands == Init /\ [][NextCommands]_vars

\* ---------------------------------------- properties
\* The step processed a round-ended message: record_game_outcome and
\* reset_game_state ran (lines 69-74 and 86-91).
RoundEnded == games_played' /= games_played

\* C1: in every reachable state the valid moves and the revealed positions
\* partition the board: together they are every (row, col) with
\* 0 <= row, col < GRID_SIZE, and no coordinate is in both.
C1_Partition ==
    /\ GetValidMoves \cup revealed_positions = Coords
    /\ GetValidMoves \cap revealed_positions = {}

\* A click has been recorded and part of the board is still unrevealed.
C1_Witness ==
    /\ ev.op = "cell_click_done"
    /\ revealed_positions /= {}
    /\ GetValidMoves /= {}

\* C2: the number of revealed positions never exceeds GRID_SIZE squared, and
\* no step other than the reset at the end of a round makes it smaller
\* (no revealed position is dropped within a round).
C2_RevealedGrows ==
    [][/\ Cardinality(revealed_positions') <= GRID_SIZE * GRID_SIZE
       /\ ~RoundEnded =>
              /\ Cardinality(revealed_positions') >=
                     Cardinality(revealed_positions)
              /\ revealed_positions \subseteq revealed_positions']_vars

\* Two clicks of one round have been recorded.
C2_Witness ==
    /\ ev.op = "cell_click_done"
    /\ Cardinality(revealed_positions) >= 2
    /\ games_played = 0

\* C4: a training-mode decision taken with the good-reveal counter at or
\* above TRAINING_CASHOUT is a cash-out: no cell is selected and no cell
\* click is sent or left in flight.
C4_ThresholdCashOut ==
    (ev.op = "training_move" /\ ev.dia >= TRAINING_CASHOUT) =>
        /\ ev.dec = "cash_out"
        /\ ev.pos = None
        /\ ev.out /= "click"
        /\ pc /= "cell_click"
        /\ click_pos = None

\* The fourth decision of a round: three cells were clicked, three good
\* reveals were counted, and the cash-out button is clicked.
C4_Witness ==
    /\ ev.op = "training_move"
    /\ ev.dia = TRAINING_CASHOUT
    /\ ev.out = "cashout"
    /\ Cardinality(revealed_positions) = 3

\* C5: with no unrevealed cell left both strategies return None, and a move
\* decision taken then, in training or RL mode, is a cash-out.
C5_NoMovesCashOut ==
    /\ GetValidMoves = {} =>
           ChooseActionTraining = {None} /\ ChooseActionRl = {None}
    /\ (ev.op \in {"training_move", "rl_move"} /\ ev.nvalid = 0) =>
           (ev.dec = "cash_out" /\ ev.pos = None /\ pc /= "cell_click")

\* An RL-mode decision on a fully revealed board.
C5_Witness ==
    /\ ev.op = "rl_move"
    /\ ev.nvalid = 0
    /\ ev.dec = "cash_out"
    /\ revealed_positions = Coords

\* C3: update_grid on a coordinate that is already revealed is rejected: the
\* board, revealed_positions and revealed_diamonds stay as they were.
C3_SecondRevealRejected ==
    [][(ev'.op = "update_grid" /\ ev'.pos \in revealed_positions) =>
           UNCHANGED <<current_grid, revealed_positions,
                       revealed_diamonds>>]_vars

\* C6 as stated: after any sequence of record_game_outcome calls in one
\* process, games_played is the number of calls, wins the number with won
\* true, losses the number with won false.
C6_CountsAreCalls ==
    /\ games_played = calls.n
    /\ wins = calls.won
    /\ losses = calls.lost

\* C6, amended: games_played, wins and losses are the counters the
\* constructor loaded plus the record_game_outcome calls of this process,
\* those with won true and those with won false; the running average of good
\* reveals is the sum reported in this process divided by games_played.  In a
\* process that loaded nothing the counters are the numbers of calls, and
\* two calls that report 5 good reveals in all give an average of 5/2.
C6_OutcomeAccounting ==
    /\ games_played = calls.loaded.games_played + calls.n
    /\ wins = calls.loaded.wins + calls.won
    /\ losses = calls.loaded.losses + calls.lost
    /\ total_diamonds_found = calls.sum
    /\ calls.n > 0 =>
           /\ game_history.games_played = games_played
           /\ game_history.wins = wins
           /\ game_history.losses = losses
           /\ game_history.average_diamonds[2] > 0
           /\ game_history.average_diamonds[1] * games_played =
                  calls.sum * game_history.average_diamonds[2]
    /\ calls.loaded = NothingLoaded =>
           /\ games_played = calls.n
           /\ wins = calls.won
           /\ losses = calls.lost
           /\ (calls.n = 2 /\ calls.sum = 5) =>
                  game_history.average_diamonds = <<5, 2>>

\* One win and one loss that reported 5 good reveals together, in a process
\* that loaded nothing.
C6_Witness ==
    /\ ev.op = "record_game_outcome"
    /\ calls.loaded = NothingLoaded
    /\ games_played = 2
    /\ wins = 1
    /\ losses = 1
    /\ total_diamonds_found = 5
    /\ game_history.average_diamonds = <<5, 2>>

\* C7: update_q_values sets the entry of (old state, action) to
\* q + learning rate * (reward + discount factor * bestNext - q), q being the
\* previous entry or 0 when there is none, and touches no other entry; from
\* an empty table with reward 1 and bestNext 0 the entry is 1/10.
C7_QUpdate ==
    upd.n > 0 =>
        LET a == ActionStr(upd.action)
            had == /\ upd.old \in DOMAIN upd.before
                   /\ a \in DOMAIN upd.before[upd.old]
            q == IF had THEN upd.before[upd.old][a] ELSE <<0, 1>>
            target == RSub(RAdd(upd.reward, RMul(<<19, 20>>, upd.best)), q)
        IN  /\ q_table[upd.old][a] = RAdd(q, RMul(<<1, 10>>, target))
            /\ \A s \in DOMAIN upd.before :
                   \A b \in DOMAIN upd.before[s] :
                       (s /= upd.old \/ b /= a) =>
                           q_table[s][b] = upd.before[s][b]
            /\ (upd.before = EmptyTable /\ upd.reward = <<1, 1>>
                    /\ upd.best = <<0, 1>>) =>
                   q_table[upd.old][a] = <<1, 10>>

\* The first update of an empty table, with reward 1.
C7_Witness ==
    /\ ev.op = "update_q_values"
    /\ upd.n = 1
    /\ upd.before = EmptyTable
    /\ upd.reward = <<1, 1>>
    /\ upd.best = <<0, 1>>
    /\ q_table[upd.old][ActionStr(upd.action)] = <<1, 10>>

\* C8: over the value-guided moves the exploration rate never increases and
\* never falls below MIN_EXPLORATION_RATE, and a decay step taken at the
\* floor leaves it where it is.
C8_ExplorationRate ==
    [][/\ exploration_rate' <= exploration_rate
       /\ exploration_rate' >= MIN_EXPLORATION_RATE
       /\ (exploration_rate = MIN_EXPLORATION_RATE
               /\ rl_moves' = rl_moves + 1) =>
              exploration_rate' = MIN_EXPLORATION_RATE]_vars

\* The rate has reached the floor and decay steps went on after that.
C8_Witness ==
    /\ exploration_rate = MIN_EXPLORATION_RATE
    /\ Decay(exploration_rate) = exploration_rate
    /\ rl_moves = MaxRateSteps
    /\ ~training_mode

\* C9: while a round is active and the game bot has sent nothing for longer
\* than MAX_WAIT_TIME, the turn loop takes no further turn (it pauses).
C9_SilentBotPauses ==
    [][(is_game_active /\ since_msg > MAX_WAIT_TIME) =>
           ev'.op \notin {"training_move", "rl_move"}]_vars

\* C10: once a round-start command has gone unanswered for longer than
\* MAX_WAIT_TIME, the loop does not send the round-start command again.
C10_StartNotResent ==
    [][(start_pending /\ since_start > MAX_WAIT_TIME) =>
           ev'.op /= "loop_start"]_vars

\* C11: a message that reports a bomb, handled while a round is active, ends
\* the round as lost: one more game and one more loss are counted, no win,
\* the good-reveal count of the round (with a diamond this very message
\* reports) is added to the total, the round identifier is cleared and the
\* grid state is reset.  A message that reports neither a bomb nor a win
\* leaves the round active and the statistics as they are.
C11_BombEndsRound ==
    [][(is_game_active /\ ev'.op = "message") =>
           IF ev'.msg.loss
           THEN /\ games_played' = games_played + 1
                /\ losses' = losses + 1
                /\ wins' = wins
                /\ total_diamonds_found' =
                       total_diamonds_found + revealed_diamonds
                       + (IF ev'.msg.buttons.rows > 0 /\ ev'.msg.diamond
                          THEN 1 ELSE 0)
                /\ current_game_id' = "None"
                /\ ~is_game_active'
                /\ current_grid' = [p \in Coords |-> "unknown"]
                /\ revealed_positions' = {}
                /\ revealed_diamonds' = 0
           ELSE ev'.msg.won \/
                    /\ is_game_active'
                    /\ current_game_id' = current_game_id
                    /\ current_game_id' /= "None"
                    /\ revealed_positions' = revealed_positions
                    /\ UNCHANGED statVars]_vars

\* A round with a good reveal has ended with a bomb.
C11_Witness ==
    /\ ev.op = "message"
    /\ ev.dec = "loss"
    /\ ev.dia >= 1
    /\ losses = 1
    /\ total_diamonds_found = ev.dia
    /\ current_game_id = "None"
    /\ revealed_positions = {}
    /\ pc /= "none"

\* C12: the handler of a message that ends a round (win or loss) sends the
\* round-start command at once exactly when the automation is running and
\* not paused for the operator; stopped or paused, it sends nothing.
C12_RestartIffRunning ==
    [][(ev'.op = "message" /\ (ev'.msg.loss \/ ev'.msg.won)) =>
           IF is_running /\ ~waiting_for_resume
           THEN ev'.out = "start" /\ h_inflight' = h_inflight + 1
           ELSE ev'.out = "none" /\ h_inflight' = h_inflight]_vars

\* A win was handled while running and the next round was requested.
C12_Witness ==
    /\ ev.op = "message"
    /\ ev.dec = "won"
    /\ ev.out = "start"
    /\ h_inflight = 1
    /\ is_running
    /\ ~waiting_for_resume

\* C13: while waiting_for_resume is set, neither the turn loop nor the
\* message handler sends a cell click, a cash-out click or a round-start
\* command; the steps taken while paused send at most operator notices.
C13_PausedSendsNothing ==
    [][waiting_for_resume =>
           ev'.out \notin {"click", "cashout", "start"}]_vars

\* Paused while running: the end of a round was handled and no new round
\* was requested, and the loop is alive.
C13_Witness ==
    /\ waiting_for_resume
    /\ is_running
    /\ pc = "loop"
    /\ ev.op = "message"
    /\ ev.dec \in {"loss", "won"}
    /\ ev.out = "none"

\* C14: when the click of a cell fails, the controller clicks another valid
\* cell in its place if there is one, and otherwise goes on to cash out.
C14_FailedClickSubstituted ==
    [][ev'.op = "cell_click_failed" =>
           IF GetValidMoves /= {}
           THEN pc' = "cell_click" /\ click_pos' \in GetValidMoves
           ELSE pc' \in {"cashout_click", "cashout_notify"}]_vars

\* C15: an error raised by the round-start command, a click, a cash-out or
\* an operator notice does not end the turn loop: after the failing step the
\* loop is still alive and is_running is as it was.  The loop ends only with
\* is_running false (its while test, or the cancellation of /stopai).
C15_ErrorsKeepLoop ==
    [][/\ ev'.op \in {"failed", "cell_click_failed", "cashout_click_failed"}
           => /\ pc' \notin {"none", "done"}
              /\ is_running' = is_running
       /\ (pc \notin {"none", "done"} /\ pc' = "done") => ~is_running']_vars

\* An await of the running loop has raised and the loop goes on unpaused.
C15_Witness ==
    /\ ev.op = "failed"
    /\ pc = "loop"
    /\ is_running
    /\ is_game_active
    /\ ~waiting_for_resume

\* C16: when /stopai stops the automation while the turn loop waits for the
\* answer to a cell click it has sent, the clicked cell is among the
\* revealed positions afterwards.
C16_StopKeepsSentClick ==
    [][(is_running /\ ~is_running' /\ pc = "cell_click") =>
           click_pos \in revealed_positions']_vars

\* C17: the grid state, the value table and the statistics are changed only
\* by steps of the turn-loop task; the handler of an inbound message and the
\* command handlers leave them as they are.
C17_LoopSoleMutator ==
    [][(gridVars' /= gridVars \/ q_table' /= q_table
            \/ statVars' /= statVars) =>
           /\ ev'.op /= "message"
           /\ pc \notin {"none", "done"}
           /\ pc' /= pc]_vars

\* C18: get_state_hash returns the key determined by the set of revealed
\* cells, the configured number of bombs and the count of diamonds revealed,
\* whatever order the cells were revealed or are iterated in, and the call
\* changes no field of the program.
C18_KeyIsFunctionOfState ==
    [][ev'.op = "get_state_hash" =>
           /\ ev'.out = StateHash(revealed_positions, bombs,
                                  revealed_diamonds)
           /\ UNCHANGED stateVars]_vars

\* A key has been computed for two or more revealed cells that iteration
\* yielded out of order, with diamonds found and a non-default bomb count.
C18_Witness ==
    /\ ev.op = "get_state_hash"
    /\ Len(ev.pos) >= 2
    /\ \E i \in 1 .. Len(ev.pos) - 1 : PosLess(ev.pos[i + 1], ev.pos[i])
    /\ revealed_diamonds > 0
    /\ bombs /= DEFAULT_BOMBS

C20_PermissionGatesDisk ==
    [][/\ (~dp_permission /\ ~dp_permission') =>
              UNCHANGED <<disk_model, disk_history>>
       /\ (~dp_permission
             /\ ev'.op \in {"save_model_data", "save_game_history"}) =>
              /\ ev'.dec = "False"
              /\ UNCHANGED <<disk_model, disk_history>>
       /\ (~dp_permission /\ ev'.op = "load_model_data") =>
              DOMAIN ev'.pos = {}
       /\ (~dp_permission /\ ev'.op = "load_game_history") =>
              DOMAIN ev'.pos = {}]_vars

\* Permission has been withdrawn with a table and a history on disk, and a
\* save of a different table has been refused.
C20_Witness ==
    /\ ~dp_permission
    /\ ev.op = "save_model_data"
    /\ ev.dec = "False"
    /\ DOMAIN disk_model /= {}
    /\ DOMAIN ev.pos = {}
    /\ DOMAIN disk_history /= {}

\* C21: a round outcome is recorded only for a round that became active:
\* games_played never exceeds the number of rounds that became active.
C21_OutcomePerActiveRound == games_played <= rounds

\* C22: when a round becomes active, no cell is recorded as revealed and the
\* count of diamonds is what the activating message itself reports.
C22_NewRoundStartsClean ==
    [][rounds' = rounds + 1 =>
           /\ revealed_positions' = {}
           /\ revealed_diamonds' = IF ev'.msg.diamond THEN 1 ELSE 0]_vars

\* C23: the bestNext that update_q_values uses is the largest estimate the
\* table stores under the new state for a valid move, and 0.0 only when the
\* table stores none.
C23_BestNextIsMax ==
    [][upd'.n = upd.n + 1 =>
           LET stored == {q_table[upd'.new][ActionStr(a)] :
                             a \in Known(q_table, upd'.new, GetValidMoves)}
           IN  IF stored = {} THEN upd'.best = RZero
               ELSE /\ upd'.best \in stored
                    /\ \A x \in stored : ~RLess(upd'.best, x)]_vars

\* C24: choose_action_rl returns an unrevealed cell whenever one is left;
\* when some unrevealed cell has a stored estimate above 0 under the current
\* state key, the cell returned has the largest stored estimate among the
\* unrevealed cells; when none has, every unrevealed cell may be returned.
C24_ExploitReturnsMaximizer ==
    [][ev'.op = "choose_action_rl" =>
           LET key == StateHash(revealed_positions, bombs, revealed_diamonds)
               unrevealed == Coords \ revealed_positions
               stored == IF key \in DOMAIN q_table
                         THEN {a \in unrevealed :
                                  ActionStr(a) \in DOMAIN q_table[key]}
                         ELSE {}
               est(a) == q_table[key][ActionStr(a)]
           IN  /\ unrevealed = {} <=> ev'.pos = None
               /\ unrevealed /= {} => ev'.pos \in unrevealed
               /\ (\E a \in stored : RLess(RZero, est(a))) =>
                      /\ ev'.pos \in stored
                      /\ \A b \in stored : ~RLess(est(ev'.pos), est(b))]_vars
    /\ [](LET key == StateHash(revealed_positions, bombs, revealed_diamonds)
              unrevealed == Coords \ revealed_positions
              stored == IF key \in DOMAIN q_table
                        THEN {a \in unrevealed :
                                 ActionStr(a) \in DOMAIN q_table[key]}
                        ELSE {}
          IN  (\A a \in stored : ~RLess(RZero, q_table[key][ActionStr(a)]))
                  => \A p \in unrevealed :
                         ENABLED (CallChooseActionRl /\ ev'.pos = p))

\* A cell has been chosen whose stored estimate is above 0 and above the
\* estimate stored for another unrevealed cell.
C24_Witness ==
    /\ ev.op = "choose_action_rl"
    /\ ev.pos /= None
    /\ GetStateHash \in DOMAIN q_table
    /\ ActionStr(ev.pos) \in DOMAIN q_table[GetStateHash]
    /\ RLess(RZero, q_table[GetStateHash][ActionStr(ev.pos)])
    /\ \E b \in Coords \ revealed_positions :
           /\ ActionStr(b) \in DOMAIN q_table[GetStateHash]
           /\ RLess(q_table[GetStateHash][ActionStr(b)],
                    q_table[GetStateHash][ActionStr(ev.pos)])

\* C25: calculate_reward returns -10 when the action hit a bomb, whatever the
\* counts; otherwise the difference new - old when that is positive;
\* otherwise -1/10.  It changes no state.
C25_Reward ==
    [][ev'.op = "calculate_reward" =>
           LET old == ev'.pos[1]
               new == ev'.pos[2]
           IN  /\ ev'.dec = "bomb" => ev'.out = <<-10, 1>>
               /\ (ev'.dec = "clear" /\ new > old) =>
                      ev'.out = <<new - old, 1>>
               /\ (ev'.dec = "clear" /\ new <= old) => ev'.out = <<-1, 10>>
               /\ UNCHANGED stateVars]_vars

\* A reward has been computed for a gain of more than one reveal.
C25_Witness ==
    /\ ev.op = "calculate_reward"
    /\ ev.dec = "clear"
    /\ ev.pos[2] - ev.pos[1] > 1
    /\ ev.out = <<ev.pos[2] - ev.pos[1], 1>>

\* C26: when the loop chooses a move in a round in which a click has been
\* made and a found diamond has been reported, the value table has been
\* updated: it holds at least one entry.
C26_LearnsBeforeNextMove ==
    [][(/\ ev'.op \in {"training_move", "rl_move"}
        /\ revealed_positions /= {}
        /\ revealed_diamonds > 0) => DOMAIN q_table /= {}]_vars

\* C27: a coordinate is in revealed_positions exactly when its cell of
\* current_grid is not 'unknown'.
C27_RevealedMatchesBoard ==
    \A p \in Coords : p \in revealed_positions <=> current_grid[p] /= "unknown"

C29_InitialKeyIsFreshHash ==
    [][(ev'.op = "learn_from_game" /\ ev'.pos.diamonds /= {}) =>
           LET fresh == StateHash({}, bombs, 0)
           IN  /\ fresh \in DOMAIN q_table'
               /\ \A p \in ev'.pos.diamonds :
                      ActionStr(p) \in DOMAIN q_table'[fresh]]_vars

\* C30: reset_game_state leaves every cell of the board unknown, no cell
\* revealed, the diamond count 0 and the round inactive, and does not change
\* the bet, the bomb count, the mode flags, is_running, waiting_for_resume,
\* the statistics or the value table.
C30_ResetFrame ==
    [][ev'.op = "reset_game_state" =>
           /\ \A p \in Coords : current_grid'[p] = "unknown"
           /\ DOMAIN current_grid' = Coords
           /\ revealed_positions' = {}
           /\ revealed_diamonds' = 0
           /\ ~is_game_active'
           /\ UNCHANGED <<bet_amount, bombs, training_mode, use_rl,
                          is_running, waiting_for_resume, games_played, wins,
                          losses, total_diamonds_found, game_history,
                          q_table>>]_vars

\* The round has been reset after a board had made it active, with a bet and
\* a bomb count set by the operator, the RL mode selected, an outcome
\* recorded and an entry in the value table.
C30_Witness ==
    /\ ev.op = "reset_game_state"
    /\ current_game_id /= "None"
    /\ bet_amount /= DEFAULT_BET
    /\ bombs /= DEFAULT_BOMBS
    /\ ~training_mode
    /\ games_played > 0
    /\ DOMAIN q_table /= {}

\* C31: every cell click the loop sends, in training and in RL mode, is for
\* a coordinate of the grid that is not in revealed_positions when the click
\* is sent.
C31_ClicksUnrevealedCell ==
    [][ev'.out = "click" =>
           /\ ev'.pos \in (0 .. GRID_SIZE - 1) \X (0 .. GRID_SIZE - 1)
           /\ ev'.pos \notin revealed_positions
           /\ click_pos' = ev'.pos]_vars

\* A value-guided move has sent a click while another cell was revealed.
C31_Witness ==
    /\ ev.op = "rl_move"
    /\ ev.out = "click"
    /\ pc = "cell_click"
    /\ revealed_positions /= {}

C33_OneStartPerRound ==
    [][ev'.op = "loop_start" => h_inflight = 0]_vars


\* C34: once the loop has called _cash_out in a round, every later decision
\* of a move function in that round is a cash-out request again, and no
\* cell click is sent before the round's terminal message.
C34_NoClickAfterCashOut ==
    [][(cash_out_requested /\ ev'.op \in {"training_move", "rl_move"}) =>
           ev'.dec = "cash_out" /\ ev'.out /= "click"]_vars

\* C35: a game_loop task is created only while no earlier one is live
\* (game_task is None or done), however /startai, /stopai and /resume
\* interleave at their awaits: at most one loop task is live.
C35_OneLiveTask ==
    [][ev'.op = "create_task" => pc \in {"none", "done"} /\ pc' = "loop"]_vars

\* A task is created while another command handler is still suspended in
\* its reply.
C35_Witness ==
    /\ ev.op = "create_task"
    /\ pc = "loop"
    /\ c_inflight.start + c_inflight.resume > 0

\* C36: in a process whose constructor loaded no saved counters, every
\* game counted is counted as a win or as a loss, and nothing else is:
\* games_played = wins + losses.
C36_PlayedIsWinsPlusLosses ==
    calls.loaded = NothingLoaded => games_played = wins + losses

\* Games of both outcomes have been recorded since an empty start.
C36_Witness ==
    /\ ev.op = "record_game_outcome"
    /\ calls.loaded = NothingLoaded
    /\ wins > 0
    /\ losses > 0
    /\ games_played = MaxCalls

\* C37: a group message from a sender outside AUTHORIZED_USERS changes
\* nothing, whatever its text: bet_amount, bombs, is_running, the mode
\* flags, waiting_for_resume and the loop task stay as they were, and no
\* reply is sent.
C37_UnauthorizedChangesNothing ==
    [][\A sender_id \in Senders \ AUTHORIZED_USERS, text \in CommandTexts :
           CommandHandler(sender_id, text) =>
               /\ UNCHANGED <<cfgVars, flagVars, taskVars>>
               /\ CommandReplies(sender_id, text) = 0]_vars

\* A stranger's /stopai was ignored while the loop was in the middle of a
\* click.
C37_Witness ==
    /\ ev.op = "command_ignored"
    /\ ev.pos.command = "/stopai"
    /\ is_running
    /\ pc = "cell_click"
=============================================================================
